---- MODULE Spec2Model ----
(***************************************************************************)
(* Model of the slurm-server charm (src/src/charm.py) and of its two       *)
(* managers (src/src/manager/slurm_server.py, src/src/manager/munge.py).   *)
(*                                                                         *)
(* A configuration file is either absent or a sequence of lines.  A line   *)
(* is the sequence of its space-separated words and a word is the pair     *)
(* <<key, value>> around its first "=", so that                            *)
(*   NodeName=node1 NodeAddr=10.0.0.2 CPUs=4 RealMemory=8192               *)
(* is << <<"NodeName","node1">>, <<"NodeAddr","10.0.0.2">>,                *)
(*       <<"CPUs",4>>, <<"RealMemory",8192>> >>.                           *)
(* Host names and addresses are single-line strings without blanks or "=". *)
(* A Python value that may be None is None == <<>> or Some(v) == <<v>>.    *)
(***************************************************************************)
EXTENDS Integers, Sequences, FiniteSets, TLC

VARIABLES
    conf,            \* conf[u]: /etc/slurm/slurm.conf of unit u (Absent or lines)
    slurmInstalled,  \* slurmInstalled[u]: the slurmctld package is present
    slurmRunning,    \* slurmRunning[u]: service_running("slurmctld")
    mungeInstalled,  \* mungeInstalled[u]: the munge package is present
    mungeRunning,    \* mungeRunning[u]: service_running("munge")
    keyFile,         \* keyFile[u]: /etc/munge/munge.key of unit u (Absent or bytes)
    status,          \* status[u]: the unit's status message
    leader,          \* the unit for which unit.is_leader() is true
    ctrlPayload,     \* slurm-controller application bucket
    authPayload,     \* auth-munge application bucket
    nonceCtr,        \* number of nonces secrets.token_urlsafe() has produced
    hashseed,        \* string-hash seed of the running Python process
    handler,         \* handler[u]: the handler unit u runs or ran last
    pc,              \* pc[u]: next statement of the running handler, or "idle"
    ev,              \* ev[u]: the slurm-compute unit bucket of the event handled
    outcome,         \* outcome[u]: "running", "ok" or the exception that escaped
    trace,           \* trace[u]: manager calls made by the handler so far
    pre,             \* pre[u]: the unit's state when the handler was entered
    call             \* the last direct manager call (manager-level specification)

vars == <<conf, slurmInstalled, slurmRunning, mungeInstalled, mungeRunning,
          keyFile, status, leader, ctrlPayload, authPayload, nonceCtr,
          hashseed, handler, pc, ev, outcome, trace, pre, call>>

unitVars == <<slurmInstalled, slurmRunning, mungeInstalled, mungeRunning,
              keyFile, status, leader, ctrlPayload, authPayload, nonceCtr,
              handler, pc, ev, outcome, trace, pre>>

----------------------------------------------------------------------------
(* Bounds and input domains *)

\* Node lines a configuration file may hold before admissions stop.
MaxNodeLines == 2

\* Nonces the leader may generate before relation-joined events stop.
MaxNonces == 2

Units == {"u1", "u2"}

\* A file: absent, or present with its lines (or bytes).
Absent == [exists |-> FALSE, lines |-> <<>>]
File(lines) == [exists |-> TRUE, lines |-> lines]
None == <<>>
Some(v) == <<v>>

HostNames == {"", "node1"}
Addresses == {"10.0.0.2"}
CpuCounts == {0, 4}
MemSizes == {0}

\* Keyword arguments of a direct add_node call: every field may be missing.
KwArgs ==
    [nodename : {None} \cup {Some(n) : n \in HostNames},
     nodeaddr : {None} \cup {Some(a) : a \in Addresses},
     cpus : {None} \cup {Some(c) : c \in CpuCounts},
     realmemory : {None} \cup {Some(m) : m \in MemSizes}]

\* A process orders a set of strings by its hash seed: one order per seed.
Seeds ==
    {s \in [1..Cardinality(HostNames) -> HostNames] :
        \A i, j \in DOMAIN s : i # j => s[i] # s[j]}

----------------------------------------------------------------------------
(* Lines of slurm.conf *)

HostLine(hostname, address) == << <<"SlurmctldHost", <<hostname, address>> >> >>

TemplateTail ==
    << << <<"ClusterName", "base">> >>,
       << <<"AuthType", "auth/munge">> >>,
       << <<"FirstJobId", "65536">> >>,
       << <<"InactiveLimit", "120">> >>,
       << <<"JobCompType", "jobcomp/filetxt">> >>,
       << <<"JobCompLoc", "/var/log/slurm/jobcomp">> >>,
       << <<"ProctrackType", "proctrack/linuxproc">> >>,
       << <<"KillWait", "30">> >>,
       << <<"MaxJobCount", "10000">> >>,
       << <<"MinJobAge", "3600">> >>,
       << <<"ReturnToService", "0">> >>,
       << <<"SchedulerType", "sched/backfill">> >>,
       << <<"SlurmctldLogFile", "/var/log/slurm/slurmctld.log">> >>,
       << <<"SlurmdLogFile", "/var/log/slurm/slurmd.log">> >>,
       << <<"SlurmctldPort", "7002">> >>,
       << <<"SlurmdPort", "7003">> >>,
       << <<"SlurmdSpoolDir", "/var/spool/slurmd.spool">> >>,
       << <<"StateSaveLocation", "/var/spool/slurm.state">> >>,
       << <<"SwitchType", "switch/none">> >>,
       << <<"TmpFS", "/tmp">> >>,
       << <<"WaitTime", "30">> >> >>

\* f"NodeName={nodename} NodeAddr={nodeaddr} CPUs={cpus} RealMemory={realmemory}"
NodeLine(nodename, nodeaddr, cpus, realmemory) ==
    << <<"NodeName", nodename>>, <<"NodeAddr", nodeaddr>>,
       <<"CPUs", cpus>>, <<"RealMemory", realmemory>> >>

\* f"PartitionName=base Nodes={','.join(node_list)} MaxNodes={len(node_list)} State=UP"
PartitionLine(nodes, count) ==
    << <<"PartitionName", "base">>, <<"Nodes", nodes>>,
       <<"MaxNodes", count>>, <<"State", "UP">> >>

\* entry.startswith("NodeName")
StartsWithNodeName(entry) == Len(entry) > 0 /\ entry[1][1] = "NodeName"

\* Faulty variant: the prefix is misspelt, so no line ever matches.
StartsWithPartitionBaseTypo(entry) ==
    Len(entry) > 0 /\ entry[1] = <<"PartitionName", "Base">>

\* entry.startswith("PartitionName=base")
StartsWithPartitionBase(entry) ==
    Len(entry) > 0 /\ entry[1] = <<"PartitionName", "base">>

\* entry.split(" ")[0].split("=")[1]
NodeNameToken(entry) == entry[1][2]

----------------------------------------------------------------------------
(* SlurmConfFileEditor (hpcteditors): load, add_line(s), dump *)

\* load(): the lines of the file, trimmed, blank lines dropped; a missing
\* file is an empty document.
EditorLoad(file) ==
    IF file.exists THEN SelectSeq(file.lines, LAMBDA l : Len(l) > 0) ELSE <<>>

\* add_lines(content): append to the in-memory document.
EditorAddLines(doc, content) == doc \o content

\* dump(): truncate and rewrite the file, one directive per line.
EditorDump(doc) == File(doc)

----------------------------------------------------------------------------
(* SlurmServerManager *)

\* __lint_node_conf(*args): raise when some argument is None.
\* Faulty variant: rejects every falsy argument ("" and 0), not only None.
LintRaisesFalsy(args) ==
    \E i \in DOMAIN args :
        \/ args[i] = None
        \/ i <= 2 /\ args[i][1] = ""
        \/ i > 2 /\ args[i][1] = 0

LintRaises(args) == \E i \in DOMAIN args : args[i] = None

\* add_node(**kwargs): lint, then load / add_line / dump.
AddNode(file, kw) ==
    IF LintRaises(<<kw.nodename, kw.nodeaddr, kw.cpus, kw.realmemory>>)
    THEN [raised |-> "InvalidNodeConfError", file |-> file]
    ELSE [raised |-> "none",
          file |-> EditorDump(EditorAddLines(EditorLoad(file),
                      << NodeLine(kw.nodename[1], kw.nodeaddr[1],
                                  kw.cpus[1], kw.realmemory[1]) >>))]

\* generate_new_conf() that keeps the old file and appends the template.
GenerateNewConfAppend(file, hostname, address) ==
    EditorDump(EditorAddLines(EditorLoad(file),
                              <<HostLine(hostname, address)>> \o TemplateTail))

\* generate_new_conf(): remove the file, create it empty, write the template.
GenerateNewConf(file, hostname, address) ==
    EditorDump(EditorAddLines(EditorLoad(File(<<>>)),
                              <<HostLine(hostname, address)>> \o TemplateTail))

\* Faulty variant: no NodeName line is recognised.
NodeSetEmpty(lines) == {}

\* The names of the lines that start with NodeName, as a set.
NodeSet(lines) ==
    {NodeNameToken(lines[i]) : i \in {j \in DOMAIN lines : StartsWithNodeName(lines[j])}}

\* ','.join(node_list): the set in the iteration order the seed gives it.
JoinOrder(nodes, seed) ==
    LET F[i \in 0..Len(seed)] ==
            IF i = 0 THEN <<>>
            ELSE IF seed[i] \in nodes THEN Append(F[i-1], seed[i]) ELSE F[i-1]
    IN  F[Len(seed)]

\* list.remove(entry): drop the first element equal to entry.
ListRemove(lines, entry) ==
    LET j == CHOOSE k \in DOMAIN lines :
                 lines[k] = entry /\ \A m \in 1..(k-1) : lines[m] # entry
    IN  SubSeq(lines, 1, j-1) \o SubSeq(lines, j+1, Len(lines))

\* for entry in conf: if entry.startswith("PartitionName=base"): conf.remove(entry)
\* The list iterator holds an index: after a removal it moves on to the next
\* index of the shortened list.
RECURSIVE RemoveLoop(_, _)
RemoveLoop(lines, i) ==
    IF i > Len(lines) THEN lines
    ELSE IF StartsWithPartitionBase(lines[i])
         THEN RemoveLoop(ListRemove(lines, lines[i]), i + 1)
         ELSE RemoveLoop(lines, i + 1)

\* Faulty variant: the old partition lines are kept.
RemovePartitionsNone(lines) == lines

RemovePartitions(lines) == RemoveLoop(lines, 1)

\* The names of the NodeName lines as a list: one entry per line.
RECURSIVE NodeListOf(_)
NodeListOf(lines) ==
    IF lines = <<>> THEN <<>>
    ELSE IF StartsWithNodeName(lines[1])
         THEN <<NodeNameToken(lines[1])>> \o NodeListOf(Tail(lines))
         ELSE NodeListOf(Tail(lines))

\* Faulty variant: node_list is a list, so a repeated name counts twice.
NewPartitionLinePerLine(lines, seed) ==
    PartitionLine(NodeListOf(lines), Len(NodeListOf(lines)))

\* The line generate_base_partition appends.
NewPartitionLine(lines, seed) ==
    PartitionLine(JoinOrder(NodeSet(lines), seed), Cardinality(NodeSet(lines)))

\* Faulty variant: the new partition line is written first.
GenerateBasePartitionPrepend(file, seed) ==
    IF ~file.exists
    THEN [raised |-> "FileNotFoundError", file |-> file]
    ELSE [raised |-> "none",
          file |-> File(<<NewPartitionLine(file.lines, seed)>>
                            \o RemovePartitions(file.lines))]

\* generate_base_partition(): read the stripped lines, collect the node set,
\* remove the base partition lines, append the new one, rewrite the file.
\* Reading a missing file raises.
GenerateBasePartition(file, seed) ==
    IF ~file.exists
    THEN [raised |-> "FileNotFoundError", file |-> file]
    ELSE [raised |-> "none",
          file |-> File(Append(RemovePartitions(file.lines),
                               NewPartitionLine(file.lines, seed)))]

----------------------------------------------------------------------------
(* Initial values shared by the specifications *)

NoKw == [nodename |-> None, nodeaddr |-> None, cpus |-> None, realmemory |-> None]
NoEvent == [nonce |-> "", hostname |-> None, ip_address |-> None,
            cpu_count |-> None, free_memory |-> None]
NoCall == [op |-> "none", kw |-> NoKw, raised |-> "none",
           before |-> Absent, consec |-> 0]
EmptyFilePayload == [data |-> Absent, checksum |-> ""]
EmptyCtrl == [nonce |-> "", slurm_conf_hash |-> "", slurm_conf |-> EmptyFilePayload]
EmptyAuth == [nonce |-> "", munge_key_hash |-> "", munge_key |-> EmptyFilePayload]

\* What a handler finds when it is entered.
Snapshot(u) == [conf |-> conf[u], keyFile |-> keyFile[u],
                slurmRunning |-> slurmRunning[u], ctrl |-> ctrlPayload,
                isLeader |-> (leader = u), auth |-> authPayload,
                status |-> status[u]]
NoSnapshot == [conf |-> Absent, keyFile |-> Absent, slurmRunning |-> FALSE,
               ctrl |-> EmptyCtrl, isLeader |-> FALSE, auth |-> EmptyAuth,
               status |-> ""]

NodeLineCount(file) ==
    Cardinality({i \in DOMAIN file.lines : StartsWithNodeName(file.lines[i])})

----------------------------------------------------------------------------
(* Manager-level specification: direct calls of SlurmServerManager on one  *)
(* host, in any order, within one Python process, from an empty slurm.conf *)

MgrHost == "u1"
MgrHostName == "node0"
MgrAddress == "10.0.0.1"

InitMgr ==
    /\ conf = [u \in Units |-> File(<<>>)]
    /\ slurmInstalled = [u \in Units |-> FALSE]
    /\ slurmRunning = [u \in Units |-> FALSE]
    /\ mungeInstalled = [u \in Units |-> FALSE]
    /\ mungeRunning = [u \in Units |-> FALSE]
    /\ keyFile = [u \in Units |-> Absent]
    /\ status = [u \in Units |-> ""]
    /\ leader = MgrHost
    /\ ctrlPayload = EmptyCtrl
    /\ authPayload = EmptyAuth
    /\ nonceCtr = 0
    /\ hashseed \in Seeds
    /\ handler = [u \in Units |-> "none"]
    /\ pc = [u \in Units |-> "idle"]
    /\ ev = [u \in Units |-> NoEvent]
    /\ outcome = [u \in Units |-> "ok"]
    /\ trace = [u \in Units |-> <<>>]
    /\ pre = [u \in Units |-> NoSnapshot]
    /\ call = NoCall

Consec(op) == IF call.op = op /\ call.consec < 2 THEN call.consec + 1
              ELSE IF call.op = op THEN 2 ELSE 1

MgrGenerateNewConf ==
    /\ conf' = [conf EXCEPT ![MgrHost] =
                    GenerateNewConf(conf[MgrHost], MgrHostName, MgrAddress)]
    /\ call' = [op |-> "generate_new_conf", kw |-> NoKw, raised |-> "none",
                before |-> conf[MgrHost], consec |-> Consec("generate_new_conf")]
    /\ UNCHANGED <<unitVars, hashseed>>

MgrAddNode ==
    \E kw \in KwArgs :
        LET r == AddNode(conf[MgrHost], kw) IN
        /\ NodeLineCount(conf[MgrHost]) < MaxNodeLines
        /\ conf' = [conf EXCEPT ![MgrHost] = r.file]
        /\ call' = [op |-> "add_node", kw |-> kw, raised |-> r.raised,
                    before |-> conf[MgrHost], consec |-> Consec("add_node")]
        /\ UNCHANGED <<unitVars, hashseed>>

MgrGenerateBasePartition ==
    LET r == GenerateBasePartition(conf[MgrHost], hashseed) IN
    /\ conf' = [conf EXCEPT ![MgrHost] = r.file]
    /\ call' = [op |-> "generate_base_partition", kw |-> NoKw,
                raised |-> r.raised, before |-> conf[MgrHost],
                consec |-> Consec("generate_base_partition")]
    /\ UNCHANGED <<unitVars, hashseed>>

NextMgr == MgrGenerateNewConf \/ MgrAddNode \/ MgrGenerateBasePartition

SpecMgr == InitMgr /\ [][NextMgr]_vars

----------------------------------------------------------------------------
(* Properties of the manager-level specification *)

PartitionIndexes(file) ==
    {i \in DOMAIN file.lines : StartsWithPartitionBase(file.lines[i])}

NodeIndexes(file) ==
    {i \in DOMAIN file.lines : StartsWithNodeName(file.lines[i])}

\* The value of the word with the given key on a line.
WordValue(line, key) ==
    LET i == CHOOSE k \in DOMAIN line : line[k][1] = key IN line[i][2]

SeqRange(s) == {s[i] : i \in DOMAIN s}

\* C5: whatever generate_new_conf, add_node and generate_base_partition calls
\* were made on an empty slurm.conf, the file holds at most one line that
\* begins with PartitionName=base.
C5_AtMostOneBasePartition ==
    Cardinality(PartitionIndexes(conf[MgrHost])) <= 1

\* C5 witness: a recompute replaced an earlier base partition that was
\* followed by a node line.
C5_Witness ==
    /\ call.op = "generate_base_partition"
    /\ Cardinality(PartitionIndexes(call.before)) = 1
    /\ \E i \in PartitionIndexes(call.before), j \in NodeIndexes(call.before) : i < j
    /\ Cardinality(PartitionIndexes(conf[MgrHost])) = 1

\* C6: the second of two consecutive generate_base_partition calls leaves
\* the file exactly as the first call left it.
C6_RecomputeIdempotent ==
    (call.op = "generate_base_partition" /\ call.consec >= 2)
        => conf[MgrHost] = call.before

\* C6 witness: two consecutive recomputes ran on a file with two node lines
\* of different names.
C6_Witness ==
    /\ call.op = "generate_base_partition"
    /\ call.consec = 2
    /\ Cardinality(NodeSet(conf[MgrHost].lines)) = 2

\* C7: after generate_base_partition the file has one base partition line,
\* whose Nodes lists each distinct name of the NodeName lines once and no
\* other name, and whose MaxNodes is the number of distinct names.
C7_PartitionListsDistinctNodes ==
    (call.op = "generate_base_partition" /\ call.raised = "none") =>
        LET f == conf[MgrHost]
            names == {f.lines[i][1][2] : i \in NodeIndexes(f)}
        IN  /\ Cardinality(PartitionIndexes(f)) = 1
            /\ \A i \in PartitionIndexes(f) :
                  /\ SeqRange(WordValue(f.lines[i], "Nodes")) = names
                  /\ Len(WordValue(f.lines[i], "Nodes")) = Cardinality(names)
                  /\ WordValue(f.lines[i], "MaxNodes") = Cardinality(names)

\* C7 witness: the recompute ran on a file whose two node lines carry the
\* same name.
C7_Witness ==
    /\ call.op = "generate_base_partition"
    /\ Cardinality(NodeIndexes(conf[MgrHost])) = 2
    /\ Cardinality(NodeSet(conf[MgrHost].lines)) = 1

\* C9: add_node raises InvalidNodeConfError exactly when one of nodename,
\* nodeaddr, cpus, realmemory is missing, and raises nothing else; with the
\* four present it appends the node line, whatever the values.
C9_LintIffAbsent ==
    call.op = "add_node" =>
        LET missing == \/ call.kw.nodename = None
                       \/ call.kw.nodeaddr = None
                       \/ call.kw.cpus = None
                       \/ call.kw.realmemory = None
        IN  /\ call.raised = (IF missing THEN "InvalidNodeConfError" ELSE "none")
            /\ missing => conf[MgrHost] = call.before
            /\ ~missing =>
                  NodeLineCount(conf[MgrHost]) = NodeLineCount(call.before) + 1

\* C9 witness: add_node accepted an empty node name with 0 CPUs and 0 memory.
C9_Witness ==
    /\ call.op = "add_node"
    /\ call.raised = "none"
    /\ call.kw.nodename = Some("")
    /\ call.kw.cpus = Some(0)
    /\ call.kw.realmemory = Some(0)

----------------------------------------------------------------------------
(* Service and package operations of the two managers *)

\* install(): apt.add_package; PackageNotFoundError and PackageError are
\* caught and logged, so the call returns whether or not the package is there.
PackageInstall(installed, aptOk) == installed \/ aptOk

\* start(): raise when the package is missing, else start unless running.
ServiceStart(installed, running, notFound) ==
    IF installed
    THEN [raised |-> "none", running |-> TRUE]
    ELSE [raised |-> notFound, running |-> running]

\* stop() that tests the running state but never calls service_stop.
ServiceStopKeepsRunning(installed, running, notFound) ==
    IF installed
    THEN [raised |-> "none", running |-> running]
    ELSE [raised |-> notFound, running |-> running]

\* stop(): raise when the package is missing, else stop if running.
ServiceStop(installed, running, notFound) ==
    IF installed
    THEN [raised |-> "none", running |-> FALSE]
    ELSE [raised |-> notFound, running |-> running]

\* restart() that calls service_restart without the installed test.
ServiceRestartUnchecked(installed, running, notFound) ==
    [raised |-> "none", running |-> TRUE]

\* restart(): raise when the package is missing, else service_restart.
ServiceRestart(installed, running, notFound) ==
    IF installed
    THEN [raised |-> "none", running |-> TRUE]
    ELSE [raised |-> notFound, running |-> running]

\* Attributes the manager classes define (properties and public methods).
SlurmServerManagerAttrs ==
    {"installed", "running", "hash", "conf_file", "generate_new_conf",
     "generate_base_partition", "add_node", "install", "start", "stop",
     "restart"}

MungeManagerAttrs ==
    {"installed", "key", "hash", "generate_new_key", "write_new_key",
     "install", "start", "stop", "restart"}

\* FileDataInterface.load(path, checksum=True): the file's bytes and checksum.
Digest(file) == <<"sha", file>>
FileDataLoad(file) == [data |-> file, checksum |-> Digest(file)]

\* __get_hostname() / __get_ipv4_address() of the unit's machine.
UnitHostName(u) == IF u = "u1" THEN "ctl1" ELSE "ctl2"
UnitAddress(u) == IF u = "u1" THEN "10.0.0.1" ELSE "10.0.0.11"

----------------------------------------------------------------------------
(* The charm: one handler at a time on a unit, statement by statement *)

\* Units that receive events in the single-unit specification.
SpecUnits == {"u1"}

\* slurm-compute unit buckets an event may carry.  The bucket is read through
\* the interface library, which is not part of the charm: a getter yields the
\* value the compute unit set, or no value (None).
Registrations ==
    [nonce : {"", "ready"},
     hostname : {None} \cup {Some(n) : n \in HostNames},
     ip_address : {Some(a) : a \in Addresses},
     cpu_count : {Some(4)},
     free_memory : {None, Some(0)}]

Init ==
    /\ conf = [u \in Units |-> Absent]
    /\ slurmInstalled = [u \in Units |-> FALSE]
    /\ slurmRunning = [u \in Units |-> FALSE]
    /\ mungeInstalled = [u \in Units |-> FALSE]
    /\ mungeRunning = [u \in Units |-> FALSE]
    /\ keyFile = [u \in Units |-> Absent]
    /\ status = [u \in Units |-> ""]
    /\ leader \in Units
    /\ ctrlPayload = EmptyCtrl
    /\ authPayload = EmptyAuth
    /\ nonceCtr = 0
    /\ hashseed = CHOOSE s \in Seeds : TRUE
    /\ handler = [u \in Units |-> "none"]
    /\ pc = [u \in Units |-> "idle"]
    /\ ev = [u \in Units |-> NoEvent]
    /\ outcome = [u \in Units |-> "ok"]
    /\ trace = [u \in Units |-> <<>>]
    /\ pre = [u \in Units |-> NoSnapshot]
    /\ call = NoCall

\* The dispatcher enters handler h on an idle unit.
Enter(u, h) ==
    /\ pc[u] = "idle"
    /\ handler' = [handler EXCEPT ![u] = h]
    /\ pre' = [pre EXCEPT ![u] = Snapshot(u)]
    /\ trace' = [trace EXCEPT ![u] = <<>>]

Goto(u, next, msg) ==
    /\ pc' = [pc EXCEPT ![u] = next]
    /\ status' = [status EXCEPT ![u] = msg]
    /\ UNCHANGED outcome

Return(u, msg) ==
    /\ pc' = [pc EXCEPT ![u] = "idle"]
    /\ status' = [status EXCEPT ![u] = msg]
    /\ outcome' = [outcome EXCEPT ![u] = "ok"]

\* An exception leaves the handler: the statements after it do not run.
Raise(u, exc) ==
    /\ pc' = [pc EXCEPT ![u] = "idle"]
    /\ outcome' = [outcome EXCEPT ![u] = exc]
    /\ UNCHANGED status

Calls(u, name) == trace' = [trace EXCEPT ![u] = Append(@, name)]

\* Leadership moves to another unit; the lease keeps it while the leader's
\* handler runs.
LeaderChange ==
    /\ pc[leader] = "idle"
    /\ \E v \in Units \ {leader} : leader' = v
    /\ UNCHANGED <<conf, slurmInstalled, slurmRunning, mungeInstalled,
                   mungeRunning, keyFile, status, ctrlPayload, authPayload,
                   nonceCtr, hashseed, handler, pc, ev, outcome, trace, pre,
                   call>>

(* _service_install *)

ServiceInstall(u) ==
    /\ handler[u] = "none"
    /\ Enter(u, "install")
    /\ Goto(u, "munge_install", "Installing munge")
    /\ UNCHANGED <<conf, slurmInstalled, slurmRunning, mungeInstalled,
                   mungeRunning, keyFile, leader, ctrlPayload, authPayload,
                   nonceCtr, hashseed, ev, call>>

InstallMunge(u) ==
    /\ pc[u] = "munge_install"
    /\ \E aptOk \in BOOLEAN :
          mungeInstalled' = [mungeInstalled EXCEPT ![u] = PackageInstall(@, aptOk)]
    /\ Calls(u, "munge.install")
    /\ Goto(u, "slurm_install", "Installing slurmctld")
    /\ UNCHANGED <<conf, slurmInstalled, slurmRunning, mungeRunning, keyFile,
                   leader, ctrlPayload, authPayload, nonceCtr, hashseed,
                   handler, ev, pre, call>>

InstallSlurm(u) ==
    /\ pc[u] = "slurm_install"
    /\ \E aptOk \in BOOLEAN :
          slurmInstalled' = [slurmInstalled EXCEPT ![u] = PackageInstall(@, aptOk)]
    /\ Calls(u, "slurm.install")
    /\ Goto(u, "generate_new_conf", "Installing slurmctld")
    /\ UNCHANGED <<conf, slurmRunning, mungeInstalled, mungeRunning, keyFile,
                   leader, ctrlPayload, authPayload, nonceCtr, hashseed,
                   handler, ev, pre, call>>

InstallConf(u) ==
    /\ pc[u] = "generate_new_conf"
    /\ conf' = [conf EXCEPT ![u] =
                   GenerateNewConf(@, UnitHostName(u), UnitAddress(u))]
    /\ Calls(u, "generate_new_conf")
    /\ Return(u, "")
    /\ UNCHANGED <<slurmInstalled, slurmRunning, mungeInstalled, mungeRunning,
                   keyFile, leader, ctrlPayload, authPayload, nonceCtr,
                   hashseed, handler, ev, pre, call>>

(* _service_start *)

ServiceStartEvent(u) ==
    /\ handler[u] # "none"
    /\ Enter(u, "start")
    /\ Goto(u, "munge_start", "Starting munge")
    /\ UNCHANGED <<conf, slurmInstalled, slurmRunning, mungeInstalled,
                   mungeRunning, keyFile, leader, ctrlPayload, authPayload,
                   nonceCtr, hashseed, ev, call>>

StartMunge(u) ==
    LET r == ServiceStart(mungeInstalled[u], mungeRunning[u], "MungeNotFoundError") IN
    /\ pc[u] = "munge_start"
    /\ mungeRunning' = [mungeRunning EXCEPT ![u] = r.running]
    /\ Calls(u, "munge.start")
    /\ IF r.raised = "none"
       THEN Goto(u, "slurm_start", "Starting slurmctld")
       ELSE Raise(u, r.raised)
    /\ UNCHANGED <<conf, slurmInstalled, slurmRunning, mungeInstalled, keyFile,
                   leader, ctrlPayload, authPayload, nonceCtr, hashseed,
                   handler, ev, pre, call>>

StartSlurm(u) ==
    LET r == ServiceStart(slurmInstalled[u], slurmRunning[u], "SlurmctldNotFoundError") IN
    /\ pc[u] = "slurm_start"
    /\ slurmRunning' = [slurmRunning EXCEPT ![u] = r.running]
    /\ Calls(u, "slurm.start")
    /\ IF r.raised = "none" THEN Return(u, "") ELSE Raise(u, r.raised)
    /\ UNCHANGED <<conf, slurmInstalled, mungeInstalled, mungeRunning, keyFile,
                   leader, ctrlPayload, authPayload, nonceCtr, hashseed,
                   handler, ev, pre, call>>

(* _service_stop *)

ServiceStopEvent(u) ==
    /\ handler[u] # "none"
    /\ Enter(u, "stop")
    /\ Goto(u, "slurm_stop", "Stopping slurmctld")
    /\ UNCHANGED <<conf, slurmInstalled, slurmRunning, mungeInstalled,
                   mungeRunning, keyFile, leader, ctrlPayload, authPayload,
                   nonceCtr, hashseed, ev, call>>

\* Faulty variant: munge is stopped while slurmctld is left as it is.
StopSlurmSkipped(u) ==
    /\ pc[u] = "slurm_stop"
    /\ Calls(u, "slurm.stop")
    /\ Goto(u, "munge_stop", "Stopping munge")
    /\ UNCHANGED <<conf, slurmInstalled, slurmRunning, mungeInstalled,
                   mungeRunning, keyFile, leader, ctrlPayload, authPayload,
                   nonceCtr, hashseed, handler, ev, pre, call>>

StopSlurm(u) ==
    LET r == ServiceStop(slurmInstalled[u], slurmRunning[u], "SlurmctldNotFoundError") IN
    /\ pc[u] = "slurm_stop"
    /\ slurmRunning' = [slurmRunning EXCEPT ![u] = r.running]
    /\ Calls(u, "slurm.stop")
    /\ IF r.raised = "none"
       THEN Goto(u, "munge_stop", "Stopping munge")
       ELSE Raise(u, r.raised)
    /\ UNCHANGED <<conf, slurmInstalled, mungeInstalled, mungeRunning, keyFile,
                   leader, ctrlPayload, authPayload, nonceCtr, hashseed,
                   handler, ev, pre, call>>

StopMunge(u) ==
    LET r == ServiceStop(mungeInstalled[u], mungeRunning[u], "MungeNotFoundError") IN
    /\ pc[u] = "munge_stop"
    /\ mungeRunning' = [mungeRunning EXCEPT ![u] = r.running]
    /\ Calls(u, "munge.stop")
    /\ IF r.raised = "none"
       THEN Return(u, "Slurm server is not active.")
       ELSE Raise(u, r.raised)
    /\ UNCHANGED <<conf, slurmInstalled, slurmRunning, mungeInstalled, keyFile,
                   leader, ctrlPayload, authPayload, nonceCtr, hashseed,
                   handler, ev, pre, call>>


(* _slurm_compute_relation_changed *)

\* Faulty variant: the leadership test is missing.
ComputeBranchNoGate(u, reg) ==
    IF reg.nonce = "" THEN "not_ready" ELSE "register"

\* Faulty variant: leadership is tested before the nonce.
ComputeBranchLeaderFirst(u, reg) ==
    IF leader = u THEN "register"
    ELSE IF reg.nonce = "" THEN "not_ready" ELSE "not_leader"

\* if iface.nonce == "": ... elif self.unit.is_leader(): ... else: ...
ComputeBranch(u, reg) ==
    IF reg.nonce = "" THEN "not_ready"
    ELSE IF leader = u THEN "register" ELSE "not_leader"

\* Faulty variant: slurmctld is started before the partition is recomputed.
AdmissionNextStartEarly(step) ==
    CASE step = "stop" -> "add_node"
      [] step = "add_node" -> "start"
      [] step = "start" -> "generate_base_partition"
      [] step = "generate_base_partition" -> "publish"

\* Faulty variant: the recompute is skipped.
AdmissionNextNoRecompute(step) ==
    CASE step = "stop" -> "add_node"
      [] step = "add_node" -> "start"
      [] step = "generate_base_partition" -> "start"
      [] step = "start" -> "publish"

\* The statements of the leader's branch, in program order.
AdmissionNext(step) ==
    CASE step = "stop" -> "add_node"
      [] step = "add_node" -> "generate_base_partition"
      [] step = "generate_base_partition" -> "start"
      [] step = "start" -> "publish"

\* The keyword arguments the handler passes to add_node.
KwOf(reg) == [nodename |-> reg.hostname, nodeaddr |-> reg.ip_address,
              cpus |-> reg.cpu_count, realmemory |-> reg.free_memory]

\* The handler entered with a bucket of `regs`, in a process whose hash seed
\* is one of `seeds`.
ComputeEvent(u, regs, seeds) ==
    \E reg \in regs, seed \in seeds :
        LET branch == ComputeBranch(u, reg) IN
        /\ handler[u] # "none"
        /\ branch = "register" => NodeLineCount(conf[u]) < MaxNodeLines
        /\ Enter(u, "slurm_compute_relation_changed")
        /\ ev' = [ev EXCEPT ![u] = reg]
        /\ hashseed' = seed
        /\ CASE branch = "not_ready" -> Return(u, "Compute node is not ready yet")
             [] branch = "register" -> Goto(u, "stop", "Registering new compute node")
             [] branch = "not_leader" -> Return(u, "Leader registering new compute node")
        /\ UNCHANGED <<conf, slurmInstalled, slurmRunning, mungeInstalled,
                       mungeRunning, keyFile, leader, ctrlPayload, authPayload,
                       nonceCtr, call>>

SlurmComputeRelationChanged(u) == ComputeEvent(u, Registrations, Seeds)

AdmitStop(u) ==
    LET r == ServiceStop(slurmInstalled[u], slurmRunning[u], "SlurmctldNotFoundError") IN
    /\ pc[u] = "stop"
    /\ slurmRunning' = [slurmRunning EXCEPT ![u] = r.running]
    /\ Calls(u, "stop")
    /\ IF r.raised = "none"
       THEN Goto(u, AdmissionNext("stop"), status[u])
       ELSE Raise(u, r.raised)
    /\ UNCHANGED <<conf, slurmInstalled, mungeInstalled, mungeRunning, keyFile,
                   leader, ctrlPayload, authPayload, nonceCtr, hashseed,
                   handler, ev, pre, call>>

AdmitAddNode(u) ==
    LET r == AddNode(conf[u], KwOf(ev[u])) IN
    /\ pc[u] = "add_node"
    /\ conf' = [conf EXCEPT ![u] = r.file]
    /\ Calls(u, "add_node")
    /\ IF r.raised = "none"
       THEN Goto(u, AdmissionNext("add_node"), status[u])
       ELSE Raise(u, r.raised)
    /\ UNCHANGED <<slurmInstalled, slurmRunning, mungeInstalled, mungeRunning,
                   keyFile, leader, ctrlPayload, authPayload, nonceCtr,
                   hashseed, handler, ev, pre, call>>

AdmitGenerateBasePartition(u) ==
    LET r == GenerateBasePartition(conf[u], hashseed) IN
    /\ pc[u] = "generate_base_partition"
    /\ conf' = [conf EXCEPT ![u] = r.file]
    /\ Calls(u, "generate_base_partition")
    /\ IF r.raised = "none"
       THEN Goto(u, AdmissionNext("generate_base_partition"), status[u])
       ELSE Raise(u, r.raised)
    /\ UNCHANGED <<slurmInstalled, slurmRunning, mungeInstalled, mungeRunning,
                   keyFile, leader, ctrlPayload, authPayload, nonceCtr,
                   hashseed, handler, ev, pre, call>>

AdmitStart(u) ==
    LET r == ServiceStart(slurmInstalled[u], slurmRunning[u], "SlurmctldNotFoundError") IN
    /\ pc[u] = "start"
    /\ slurmRunning' = [slurmRunning EXCEPT ![u] = r.running]
    /\ Calls(u, "start")
    /\ IF r.raised = "none"
       THEN Goto(u, AdmissionNext("start"), status[u])
       ELSE Raise(u, r.raised)
    /\ UNCHANGED <<conf, slurmInstalled, mungeInstalled, mungeRunning, keyFile,
                   leader, ctrlPayload, authPayload, nonceCtr, hashseed,
                   handler, ev, pre, call>>

\* out = self.slurm_controller_siface.select(self.app)
\* out.slurm_conf.load(self.slurm_server_manager.conf_file_path, checksum=True)
\* The argument is evaluated first: SlurmServerManager defines no
\* conf_file_path, so the attribute lookup raises before load is called.
AdmitPublish(u) ==
    /\ pc[u] = "publish"
    /\ Calls(u, "publish")
    /\ IF "conf_file_path" \in SlurmServerManagerAttrs
       THEN /\ ctrlPayload' = [ctrlPayload EXCEPT !.slurm_conf = FileDataLoad(conf[u])]
            /\ Return(u, status[u])
       ELSE /\ UNCHANGED ctrlPayload
            /\ Raise(u, "AttributeError")
    /\ UNCHANGED <<conf, slurmInstalled, slurmRunning, mungeInstalled,
                   mungeRunning, keyFile, leader, authPayload, nonceCtr,
                   hashseed, handler, ev, pre, call>>

Next ==
    \/ LeaderChange
    \/ \E u \in SpecUnits :
          \/ ServiceInstall(u) \/ InstallMunge(u) \/ InstallSlurm(u) \/ InstallConf(u)
          \/ ServiceStartEvent(u) \/ StartMunge(u) \/ StartSlurm(u)
          \/ ServiceStopEvent(u) \/ StopSlurm(u) \/ StopMunge(u)
          \/ SlurmComputeRelationChanged(u)
          \/ AdmitStop(u) \/ AdmitAddNode(u) \/ AdmitGenerateBasePartition(u)
          \/ AdmitStart(u) \/ AdmitPublish(u)

Spec == Init /\ [][Next]_vars


----------------------------------------------------------------------------
(* Properties of the registration handler *)

InCompute(u) == handler[u] = "slurm_compute_relation_changed"
ComputeEnded(u) == InCompute(u) /\ pc[u] = "idle"

\* The event was ready and the unit was leader when it handled it.
LeaderReady(u) == InCompute(u) /\ pre[u].isLeader /\ ev[u].nonce # ""

RecordComplete(reg) ==
    /\ reg.hostname # None
    /\ reg.ip_address # None
    /\ reg.cpu_count # None
    /\ reg.free_memory # None

Occurrences(s, x) == Cardinality({i \in DOMAIN s : s[i] = x})

AdmissionOrder ==
    <<"stop", "add_node", "generate_base_partition", "start", "publish">>

IsPrefix(s, t) == Len(s) <= Len(t) /\ s = SubSeq(t, 1, Len(s))

\* C1: while and after a unit that was not leader when it took a
\* slurm-compute registration event handles it, its slurm.conf, its munge
\* key and the running state of its slurmctld are what they were when the
\* handler was entered, whatever the payload.
C1_NonLeaderNoMutation ==
    \A u \in Units :
        (InCompute(u) /\ ~pre[u].isLeader) =>
            /\ conf[u] = pre[u].conf
            /\ keyFile[u] = pre[u].keyFile
            /\ slurmRunning[u] = pre[u].slurmRunning

\* C1 witness: a non-leader with slurmctld running has handled a ready
\* registration and reported that the leader registers the node.
C1_Witness ==
    \E u \in Units :
        /\ ComputeEnded(u)
        /\ ~pre[u].isLeader
        /\ ev[u].nonce # ""
        /\ RecordComplete(ev[u])
        /\ slurmRunning[u]
        /\ status[u] = "Leader registering new compute node"

C3_AdmissionOrder ==
    /\ [](\A u \in Units :
            LeaderReady(u) =>
                /\ IsPrefix(trace[u], AdmissionOrder)
                /\ Len(trace[u]) >= 4 => slurmRunning[u])
    /\ [][\A u \in Units :
            (LeaderReady(u) /\ pc[u] # "idle" /\ conf'[u] # conf[u]) =>
                (~slurmRunning[u] /\ ~slurmRunning'[u])]_vars

\* C3 witness: the leader, whose slurmctld was running, has gone through the
\* five steps, slurm.conf has changed and slurmctld runs again.
C3_Witness ==
    \E u \in Units :
        /\ ComputeEnded(u)
        /\ LeaderReady(u)
        /\ trace[u] = AdmissionOrder
        /\ pre[u].slurmRunning
        /\ conf[u] # pre[u].conf
        /\ slurmRunning[u]

\* C4: a registration event with an empty nonce changes nothing on the unit
\* that handles it, leader or not: slurm.conf, the running state of slurmctld
\* and the slurm-controller payload stay as they were and the handler only
\* reports that the compute node is not ready.
C4_NotReadyNoMutation ==
    \A u \in Units :
        (InCompute(u) /\ ev[u].nonce = "") =>
            /\ conf[u] = pre[u].conf
            /\ slurmRunning[u] = pre[u].slurmRunning
            /\ ctrlPayload = pre[u].ctrl
            /\ trace[u] = <<>>
            /\ pc[u] = "idle"
            /\ outcome[u] = "ok"
            /\ status[u] = "Compute node is not ready yet"

\* C4 witness: the leader, with slurmctld installed and running, has handled
\* a registration whose nonce is empty and whose record is complete.
C4_Witness ==
    \E u \in Units :
        /\ ComputeEnded(u)
        /\ pre[u].isLeader
        /\ ev[u].nonce = ""
        /\ RecordComplete(ev[u])
        /\ slurmInstalled[u]
        /\ slurmRunning[u]

\* C8: no two NodeName lines of a unit's slurm.conf carry the same name.
C8_UniqueNodeNames ==
    \A u \in Units :
        \A i, j \in NodeIndexes(conf[u]) :
            i # j => NodeNameToken(conf[u].lines[i]) # NodeNameToken(conf[u].lines[j])

C11_OnlyLeaderWrites ==
    \A u \in Units :
        (conf[u] # pre[u].conf \/ keyFile[u] # pre[u].keyFile) => pre[u].isLeader


----------------------------------------------------------------------------
(* Service-level specification: direct calls of the service, package, key  *)
(* and fingerprint operations of MungeManager and SlurmServerManager on    *)
(* one host; generate_new_key and write_new_key run statement by statement *)

\* Key material: what mungekey may produce and what a peer may send.
KeyBytes == {"k1", "k2"}

\* The path MungeManager reads and writes, and another path a received
\* FileDataInterface may carry.
KeyPath == "/etc/munge/munge.key"
KeyPaths == {KeyPath, "/var/tmp/munge.key"}

\* The key argument of write_new_key: the received file and its path.
KeyArgs == [path : KeyPaths, data : KeyBytes]

\* The key file on disk: its bytes and its permission bits.
KeyFileOf(bytes, mode) == [exists |-> TRUE, lines |-> <<bytes>>, mode |-> mode]

\* The bytes of a file, without its metadata.
FileBytes(file) == IF file.exists THEN File(file.lines) ELSE Absent

\* stat.S_IREAD | stat.S_IWRITE, and the mode of a file written by save().
OwnerReadWrite == "0600"
SavedMode == "umask"

\* hashlib.sha224 of a file's bytes: equal bytes, equal digests.
Sha224(bytes) == <<"sha224", bytes>>

\* MungeManager.hash: sha224 of the key's bytes, or MungeKeyNotFoundError.
MungeHash(key) ==
    IF key.exists
    THEN [raised |-> "none", digest |-> Some(Sha224(FileBytes(key)))]
    ELSE [raised |-> "MungeKeyNotFoundError", digest |-> None]

\* SlurmServerManager.hash: tests that slurm.conf is a file, then opens and
\* digests /etc/munge/munge.key; open() raises when that file is missing.
SlurmHash(confFile, key) ==
    IF confFile.exists
    THEN IF key.exists
         THEN [raised |-> "none", digest |-> Some(Sha224(FileBytes(key)))]
         ELSE [raised |-> "FileNotFoundError", digest |-> None]
    ELSE [raised |-> "SlurmConfNotFoundError", digest |-> None]

\* The statement after `step` in generate_new_key / write_new_key, with the
\* daemon started before the new key is written.
KeyOpNextStartEarly(op, step) ==
    CASE step = "key_stop" -> "key_remove"
      [] step = "key_remove" -> "key_start"
      [] step = "key_start" -> IF op = "generate_new_key" THEN "key_create"
                               ELSE "key_save"
      [] step = "key_save" -> "key_chmod"
      [] OTHER -> "idle"

\* The statement after `step` in generate_new_key (stop, remove, mungekey,
\* start) and in write_new_key (stop, remove, save, chmod, start).
KeyOpNext(op, step) ==
    CASE step = "key_stop" -> "key_remove"
      [] step = "key_remove" -> IF op = "generate_new_key" THEN "key_create"
                                ELSE "key_save"
      [] step = "key_create" -> "key_start"
      [] step = "key_save" -> "key_chmod"
      [] step = "key_chmod" -> "key_start"
      [] OTHER -> "idle"

\* The host's files, packages and services as a call finds them.
SvcSnapshot ==
    [conf |-> conf[MgrHost], keyFile |-> keyFile[MgrHost],
     mungeInstalled |-> mungeInstalled[MgrHost],
     mungeRunning |-> mungeRunning[MgrHost],
     slurmInstalled |-> slurmInstalled[MgrHost],
     slurmRunning |-> slurmRunning[MgrHost]]

\* The record of the last call: its name, its key argument, the exception it
\* raised ("none", or "running" while it has not returned), the digest it
\* returned, and the host as the call found it.
SvcCall(op, key, raised, digest) ==
    [op |-> op, key |-> key, raised |-> raised, digest |-> digest,
     before |-> SvcSnapshot]

NoKey == [path |-> "", data |-> ""]

\* The node admitted by add_node in this specification.
SvcNode == [nodename |-> Some("node1"), nodeaddr |-> Some("10.0.0.2"),
            cpus |-> Some(4), realmemory |-> Some(0)]

\* Variables no manager operation touches.
charmVars == <<status, leader, ctrlPayload, authPayload, nonceCtr, hashseed,
               handler, ev, outcome, trace, pre>>

InitSvc ==
    /\ conf = [u \in Units |-> Absent]
    /\ slurmInstalled = [u \in Units |-> FALSE]
    /\ slurmRunning = [u \in Units |-> FALSE]
    /\ mungeInstalled = [u \in Units |-> FALSE]
    /\ mungeRunning = [u \in Units |-> FALSE]
    /\ keyFile = [u \in Units |-> Absent]
    /\ status = [u \in Units |-> ""]
    /\ leader = MgrHost
    /\ ctrlPayload = EmptyCtrl
    /\ authPayload = EmptyAuth
    /\ nonceCtr = 0
    /\ hashseed = CHOOSE s \in Seeds : TRUE
    /\ handler = [u \in Units |-> "none"]
    /\ pc = [u \in Units |-> "idle"]
    /\ ev = [u \in Units |-> NoEvent]
    /\ outcome = [u \in Units |-> "ok"]
    /\ trace = [u \in Units |-> <<>>]
    /\ pre = [u \in Units |-> NoSnapshot]
    /\ call = [op |-> "none", key |-> NoKey, raised |-> "none",
               digest |-> None, before |-> SvcSnapshot]

\* MungeManager.install() / SlurmServerManager.install()
SvcMungeInstall ==
    \E aptOk \in BOOLEAN :
        /\ pc[MgrHost] = "idle"
        /\ mungeInstalled' = [mungeInstalled EXCEPT ![MgrHost] =
                                  PackageInstall(mungeInstalled[MgrHost], aptOk)]
        /\ call' = SvcCall("munge.install", NoKey, "none", None)
        /\ UNCHANGED <<conf, keyFile, mungeRunning, slurmInstalled,
                       slurmRunning, pc, charmVars>>

SvcSlurmInstall ==
    \E aptOk \in BOOLEAN :
        /\ pc[MgrHost] = "idle"
        /\ slurmInstalled' = [slurmInstalled EXCEPT ![MgrHost] =
                                  PackageInstall(slurmInstalled[MgrHost], aptOk)]
        /\ call' = SvcCall("slurm.install", NoKey, "none", None)
        /\ UNCHANGED <<conf, keyFile, mungeInstalled, mungeRunning,
                       slurmRunning, pc, charmVars>>

\* A start / stop / restart call on the munge daemon.
SvcMungeService(op, r) ==
    /\ pc[MgrHost] = "idle"
    /\ mungeRunning' = [mungeRunning EXCEPT ![MgrHost] = r.running]
    /\ call' = SvcCall(op, NoKey, r.raised, None)
    /\ UNCHANGED <<conf, keyFile, mungeInstalled, slurmInstalled,
                   slurmRunning, pc, charmVars>>

SvcMungeStart ==
    SvcMungeService("munge.start",
        ServiceStart(mungeInstalled[MgrHost], mungeRunning[MgrHost],
                     "MungeNotFoundError"))

SvcMungeStop ==
    SvcMungeService("munge.stop",
        ServiceStop(mungeInstalled[MgrHost], mungeRunning[MgrHost],
                    "MungeNotFoundError"))

SvcMungeRestart ==
    SvcMungeService("munge.restart",
        ServiceRestart(mungeInstalled[MgrHost], mungeRunning[MgrHost],
                       "MungeNotFoundError"))

\* A start / stop / restart call on the slurmctld daemon.
SvcSlurmService(op, r) ==
    /\ pc[MgrHost] = "idle"
    /\ slurmRunning' = [slurmRunning EXCEPT ![MgrHost] = r.running]
    /\ call' = SvcCall(op, NoKey, r.raised, None)
    /\ UNCHANGED <<conf, keyFile, mungeInstalled, mungeRunning,
                   slurmInstalled, pc, charmVars>>

SvcSlurmStart ==
    SvcSlurmService("slurm.start",
        ServiceStart(slurmInstalled[MgrHost], slurmRunning[MgrHost],
                     "SlurmctldNotFoundError"))

SvcSlurmStop ==
    SvcSlurmService("slurm.stop",
        ServiceStop(slurmInstalled[MgrHost], slurmRunning[MgrHost],
                    "SlurmctldNotFoundError"))

SvcSlurmRestart ==
    SvcSlurmService("slurm.restart",
        ServiceRestart(slurmInstalled[MgrHost], slurmRunning[MgrHost],
                       "SlurmctldNotFoundError"))

\* The hash properties of the two managers.
SvcMungeHash ==
    LET r == MungeHash(keyFile[MgrHost]) IN
    /\ pc[MgrHost] = "idle"
    /\ call' = SvcCall("munge.hash", NoKey, r.raised, r.digest)
    /\ UNCHANGED <<conf, keyFile, mungeInstalled, mungeRunning,
                   slurmInstalled, slurmRunning, pc, charmVars>>

SvcSlurmHash ==
    LET r == SlurmHash(conf[MgrHost], keyFile[MgrHost]) IN
    /\ pc[MgrHost] = "idle"
    /\ call' = SvcCall("slurm.hash", NoKey, r.raised, r.digest)
    /\ UNCHANGED <<conf, keyFile, mungeInstalled, mungeRunning,
                   slurmInstalled, slurmRunning, pc, charmVars>>

\* generate_new_conf() and add_node(...) change slurm.conf.
SvcGenerateNewConf ==
    /\ pc[MgrHost] = "idle"
    /\ conf' = [conf EXCEPT ![MgrHost] =
                    GenerateNewConf(conf[MgrHost], MgrHostName, MgrAddress)]
    /\ call' = SvcCall("generate_new_conf", NoKey, "none", None)
    /\ UNCHANGED <<keyFile, mungeInstalled, mungeRunning, slurmInstalled,
                   slurmRunning, pc, charmVars>>

SvcAddNode ==
    LET r == AddNode(conf[MgrHost], SvcNode) IN
    /\ pc[MgrHost] = "idle"
    /\ NodeLineCount(conf[MgrHost]) < MaxNodeLines
    /\ conf' = [conf EXCEPT ![MgrHost] = r.file]
    /\ call' = SvcCall("add_node", NoKey, r.raised, None)
    /\ UNCHANGED <<keyFile, mungeInstalled, mungeRunning, slurmInstalled,
                   slurmRunning, pc, charmVars>>

\* generate_new_key() / write_new_key(key): the installed test.  When munge
\* is missing the call raises at once; otherwise it goes on to self.stop().
SvcKeyOpEnter(op, key) ==
    /\ pc[MgrHost] = "idle"
    /\ IF mungeInstalled[MgrHost]
       THEN /\ pc' = [pc EXCEPT ![MgrHost] = "key_stop"]
            /\ call' = SvcCall(op, key, "running", None)
       ELSE /\ pc' = pc
            /\ call' = SvcCall(op, key, "MungeNotFoundError", None)
    /\ UNCHANGED <<conf, keyFile, mungeInstalled, mungeRunning,
                   slurmInstalled, slurmRunning, charmVars>>

SvcGenerateNewKey == SvcKeyOpEnter("generate_new_key", NoKey)

SvcWriteNewKey == \E key \in KeyArgs : SvcKeyOpEnter("write_new_key", key)

\* The key operation moves to its next statement, or returns.
SvcKeyGoto(step) ==
    LET next == KeyOpNext(call.op, step) IN
    /\ pc' = [pc EXCEPT ![MgrHost] = next]
    /\ call' = [call EXCEPT !.raised = IF next = "idle" THEN "none" ELSE @]

\* The key operation ends with an exception.
SvcKeyRaise(exc) ==
    /\ pc' = [pc EXCEPT ![MgrHost] = "idle"]
    /\ call' = [call EXCEPT !.raised = exc]

\* self.stop()
SvcKeyStop ==
    LET r == ServiceStop(mungeInstalled[MgrHost], mungeRunning[MgrHost],
                         "MungeNotFoundError") IN
    /\ pc[MgrHost] = "key_stop"
    /\ mungeRunning' = [mungeRunning EXCEPT ![MgrHost] = r.running]
    /\ IF r.raised = "none" THEN SvcKeyGoto("key_stop")
       ELSE SvcKeyRaise(r.raised)
    /\ UNCHANGED <<conf, keyFile, mungeInstalled, slurmInstalled,
                   slurmRunning, charmVars>>

\* if os.path.isfile(key): os.remove(key)
SvcKeyRemove ==
    /\ pc[MgrHost] = "key_remove"
    /\ keyFile' = [keyFile EXCEPT ![MgrHost] = Absent]
    /\ SvcKeyGoto("key_remove")
    /\ UNCHANGED <<conf, mungeInstalled, mungeRunning, slurmInstalled,
                   slurmRunning, charmVars>>

\* subprocess.run(["mungekey", "-c"]): creates the key with fresh bytes,
\* readable and writable by its owner; it does not overwrite a key.
SvcKeyCreate ==
    \E b \in KeyBytes :
        /\ pc[MgrHost] = "key_create"
        /\ keyFile' = [keyFile EXCEPT ![MgrHost] =
                           IF @.exists THEN @ ELSE KeyFileOf(b, OwnerReadWrite)]
        /\ SvcKeyGoto("key_create")
        /\ UNCHANGED <<conf, mungeInstalled, mungeRunning, slurmInstalled,
                       slurmRunning, charmVars>>

\* key.save(key.path, update_owner=True): writes the received bytes to the
\* path the key carries.
SvcKeySave ==
    /\ pc[MgrHost] = "key_save"
    /\ keyFile' = [keyFile EXCEPT ![MgrHost] =
                       IF call.key.path = KeyPath
                       THEN KeyFileOf(call.key.data, SavedMode) ELSE @]
    /\ SvcKeyGoto("key_save")
    /\ UNCHANGED <<conf, mungeInstalled, mungeRunning, slurmInstalled,
                   slurmRunning, charmVars>>

\* os.chmod("/etc/munge/munge.key", S_IREAD | S_IWRITE): raises when the
\* file is not there.
SvcKeyChmod ==
    /\ pc[MgrHost] = "key_chmod"
    /\ IF keyFile[MgrHost].exists
       THEN /\ keyFile' = [keyFile EXCEPT ![MgrHost] =
                               KeyFileOf(@.lines[1], OwnerReadWrite)]
            /\ SvcKeyGoto("key_chmod")
       ELSE /\ keyFile' = keyFile
            /\ SvcKeyRaise("FileNotFoundError")
    /\ UNCHANGED <<conf, mungeInstalled, mungeRunning, slurmInstalled,
                   slurmRunning, charmVars>>

\* self.start()
SvcKeyStart ==
    LET r == ServiceStart(mungeInstalled[MgrHost], mungeRunning[MgrHost],
                          "MungeNotFoundError") IN
    /\ pc[MgrHost] = "key_start"
    /\ mungeRunning' = [mungeRunning EXCEPT ![MgrHost] = r.running]
    /\ IF r.raised = "none" THEN SvcKeyGoto("key_start")
       ELSE SvcKeyRaise(r.raised)
    /\ UNCHANGED <<conf, keyFile, mungeInstalled, slurmInstalled,
                   slurmRunning, charmVars>>

NextSvc ==
    \/ SvcMungeInstall
    \/ SvcSlurmInstall
    \/ SvcMungeStart
    \/ SvcMungeStop
    \/ SvcMungeRestart
    \/ SvcSlurmStart
    \/ SvcSlurmStop
    \/ SvcSlurmRestart
    \/ SvcMungeHash
    \/ SvcSlurmHash
    \/ SvcGenerateNewConf
    \/ SvcAddNode
    \/ SvcGenerateNewKey
    \/ SvcWriteNewKey
    \/ SvcKeyStop
    \/ SvcKeyRemove
    \/ SvcKeyCreate
    \/ SvcKeySave
    \/ SvcKeyChmod
    \/ SvcKeyStart

SpecSvc == InitSvc /\ [][NextSvc]_vars


----------------------------------------------------------------------------
(* Properties of the service-level specification *)

MungeDaemonOps == {"munge.start", "munge.stop", "munge.restart",
                   "generate_new_key", "write_new_key"}
SlurmDaemonOps == {"slurm.start", "slurm.stop", "slurm.restart"}
KeyOps == {"generate_new_key", "write_new_key"}

\* The statements of a key operation that follow self.stop().
KeyStepsAfterStop == {"key_remove", "key_create", "key_save", "key_chmod",
                      "key_start"}

\* C12: in generate_new_key and write_new_key the key file is untouched
\* until munge has been stopped, munge stays stopped through the removal and
\* the writing of the key, and it is started only when the key file exists
\* with its new bytes (for write_new_key: the received bytes, readable and
\* writable by the owner only); a call that returns leaves munge running
\* on that key, and a call that fails leaves munge stopped.
C12_KeyReplacedWhileStopped ==
    call.op \in KeyOps =>
        LET h == MgrHost IN
        /\ pc[h] = "key_stop" => keyFile[h] = call.before.keyFile
        /\ pc[h] \in KeyStepsAfterStop => ~mungeRunning[h]
        /\ (pc[h] = "key_start" \/ (pc[h] = "idle" /\ call.raised = "none")) =>
              /\ keyFile[h].exists
              /\ keyFile[h].mode = OwnerReadWrite
              /\ call.op = "write_new_key" =>
                    keyFile[h].lines = <<call.key.data>>
        /\ (pc[h] = "idle" /\ call.raised = "none") => mungeRunning[h]
        /\ (pc[h] = "idle" /\ call.raised = "FileNotFoundError") =>
              ~mungeRunning[h]

\* C12 witness: write_new_key returned after it replaced the key of a
\* running munge by other bytes.
C12_Witness ==
    /\ call.op = "write_new_key"
    /\ pc[MgrHost] = "idle"
    /\ call.raised = "none"
    /\ call.before.mungeRunning
    /\ call.before.keyFile.exists
    /\ call.before.keyFile.lines # keyFile[MgrHost].lines

\* C13: start, stop, restart of either manager and generate_new_key /
\* write_new_key, called while the manager's package is not installed, raise
\* the manager's not-installed error to the caller at once and leave both
\* services' running state and the key file as they were.
C13_NotInstalledRaises ==
    LET unchanged == /\ pc[MgrHost] = "idle"
                     /\ mungeRunning[MgrHost] = call.before.mungeRunning
                     /\ slurmRunning[MgrHost] = call.before.slurmRunning
                     /\ keyFile[MgrHost] = call.before.keyFile
                     /\ conf[MgrHost] = call.before.conf
    IN  /\ (call.op \in MungeDaemonOps /\ ~call.before.mungeInstalled) =>
              (call.raised = "MungeNotFoundError" /\ unchanged)
        /\ (call.op \in SlurmDaemonOps /\ ~call.before.slurmInstalled) =>
              (call.raised = "SlurmctldNotFoundError" /\ unchanged)

\* C13 witness: restart of munge was called with munge missing while
\* slurmctld was installed and running.
C13_Witness ==
    /\ call.op = "munge.restart"
    /\ ~call.before.mungeInstalled
    /\ call.before.slurmInstalled
    /\ slurmRunning[MgrHost]

\* C15: when install() of either manager has returned, the manager's
\* package is installed.
C15_InstalledAfterInstall ==
    /\ call.op = "munge.install" => mungeInstalled[MgrHost]
    /\ call.op = "slurm.install" => slurmInstalled[MgrHost]

\* C16: for an installed daemon start() and restart() return with the
\* service running and stop() returns with it not running; start() on a
\* running service and stop() on a stopped one leave the host as it was.
C16_ServiceOps ==
    LET now == SvcSnapshot
        Holds(mgr, installedBefore, runningBefore, running) ==
            installedBefore =>
                /\ call.raised = "none"
                /\ call.op \in {mgr \o ".start", mgr \o ".restart"} => running
                /\ call.op = mgr \o ".stop" => ~running
                /\ (call.op = mgr \o ".start" /\ runningBefore) =>
                      now = call.before
                /\ (call.op = mgr \o ".stop" /\ ~runningBefore) =>
                      now = call.before
    IN  /\ call.op \in {"munge.start", "munge.stop", "munge.restart"} =>
              Holds("munge", call.before.mungeInstalled,
                    call.before.mungeRunning, mungeRunning[MgrHost])
        /\ call.op \in SlurmDaemonOps =>
              Holds("slurm", call.before.slurmInstalled,
                    call.before.slurmRunning, slurmRunning[MgrHost])

\* C16 witness: stop() returned on a slurmctld that was running.
C16_Witness ==
    /\ call.op = "slurm.stop"
    /\ call.before.slurmInstalled
    /\ call.before.slurmRunning
    /\ ~slurmRunning[MgrHost]

\* C17: SlurmServerManager.hash returns the sha224 digest of the bytes
\* slurm.conf holds when it is called, whatever the other files hold.
C17_HashOfConfBytes ==
    (call.op = "slurm.hash" /\ call.before.conf.exists) =>
        /\ call.raised = "none"
        /\ call.digest = Some(Sha224(FileBytes(call.before.conf)))

\* C18: MungeManager.hash raises MungeKeyNotFoundError exactly when the key
\* file is absent and SlurmServerManager.hash raises SlurmConfNotFoundError
\* exactly when slurm.conf is absent; in every other case the accessor
\* raises nothing and returns a digest.
C18_HashFailsIffOwnFileAbsent ==
    /\ call.op = "munge.hash" =>
          IF call.before.keyFile.exists
          THEN call.raised = "none" /\ call.digest # None
          ELSE call.raised = "MungeKeyNotFoundError"
    /\ call.op = "slurm.hash" =>
          IF call.before.conf.exists
          THEN call.raised = "none" /\ call.digest # None
          ELSE call.raised = "SlurmConfNotFoundError"


----------------------------------------------------------------------------
(* Properties of the install handler and of the admission's publication *)

\* C14: when a package installation of the install handler has failed (the
\* package is missing after the manager's install() call), the handler has
\* ended with the failure, none of its later calls was made, and the status
\* was not cleared.
C14_InstallFailureAborts ==
    \A u \in Units :
        LET made == SeqRange(trace[u])
            aborted == /\ pc[u] = "idle"
                       /\ outcome[u] \notin {"ok", "running"}
                       /\ status[u] # ""
        IN  handler[u] = "install" =>
                /\ ("munge.install" \in made /\ ~mungeInstalled[u]) =>
                      /\ aborted
                      /\ "slurm.install" \notin made
                      /\ "generate_new_conf" \notin made
                /\ ("slurm.install" \in made /\ ~slurmInstalled[u]) =>
                      /\ aborted
                      /\ "generate_new_conf" \notin made

\* C20: when the leader's admission of a node has run through the restart
\* of slurmctld and the handler has ended, the slurm_conf of the
\* slurm-controller payload holds the bytes of the leader's slurm.conf,
\* which has the node's NodeName line and lists the node in the Nodes of
\* the base partition.
C20_PublishedConfIsOnDiskConf ==
    \A u \in Units :
        (ComputeEnded(u) /\ LeaderReady(u) /\ "start" \in SeqRange(trace[u])) =>
            LET f == conf[u]
                n == ev[u].hostname[1]
            IN  /\ ctrlPayload.slurm_conf.data = f
                /\ \E i \in NodeIndexes(f) : NodeNameToken(f.lines[i]) = n
                /\ \E i \in PartitionIndexes(f) :
                      n \in SeqRange(WordValue(f.lines[i], "Nodes"))


----------------------------------------------------------------------------
(* generate_new_conf under the manager-level specification *)

\* The directive names of the baseline template, in its order.
TemplateKeys ==
    <<"SlurmctldHost", "ClusterName", "AuthType", "FirstJobId",
      "InactiveLimit", "JobCompType", "JobCompLoc", "ProctrackType",
      "KillWait", "MaxJobCount", "MinJobAge", "ReturnToService",
      "SchedulerType", "SlurmctldLogFile", "SlurmdLogFile", "SlurmctldPort",
      "SlurmdPort", "SlurmdSpoolDir", "StateSaveLocation", "SwitchType",
      "TmpFS", "WaitTime">>

\* C19: whatever slurm.conf held, after generate_new_conf it holds exactly
\* 22 lines, one directive each, named as the template names them and in
\* its order; the first is SlurmctldHost=<hostname>(<address>) of the host,
\* and no line is a NodeName or a PartitionName line.
C19_NewConfIsTemplate ==
    call.op = "generate_new_conf" =>
        LET f == conf[MgrHost] IN
        /\ f.exists
        /\ Len(f.lines) = 22
        /\ Len(TemplateKeys) = 22
        /\ \A i \in DOMAIN f.lines :
              /\ Len(f.lines[i]) = 1
              /\ f.lines[i][1][1] = TemplateKeys[i]
        /\ f.lines[1][1][2] = <<MgrHostName, MgrAddress>>
        /\ f.lines = <<HostLine(MgrHostName, MgrAddress)>> \o TemplateTail
        /\ NodeIndexes(f) = {}
        /\ PartitionIndexes(f) = {}

\* C19 witness: generate_new_conf ran on a file that held a node line and a
\* base partition line.
C19_Witness ==
    /\ call.op = "generate_new_conf"
    /\ NodeIndexes(call.before) # {}
    /\ PartitionIndexes(call.before) # {}


----------------------------------------------------------------------------
(* Frame of generate_base_partition under the manager-level specification *)

\* The lines of a file that do not begin with PartitionName=base, in order.
OtherLines(file) ==
    SelectSeq(file.lines, LAMBDA l : ~StartsWithPartitionBase(l))

\* C29: generate_base_partition keeps every line that does not begin with
\* PartitionName=base, unchanged and in the same order, and the one base
\* partition line of the file it writes is its last line.
C29_RecomputeKeepsOtherLines ==
    (call.op = "generate_base_partition" /\ call.raised = "none") =>
        LET f == conf[MgrHost] IN
        /\ OtherLines(f) = OtherLines(call.before)
        /\ Len(f.lines) = Len(OtherLines(call.before)) + 1
        /\ StartsWithPartitionBase(f.lines[Len(f.lines)])

\* C29 witness: the recompute ran on a file that held the template, a base
\* partition line and a node line after it.
C29_Witness ==
    /\ call.op = "generate_base_partition"
    /\ call.raised = "none"
    /\ \E i \in PartitionIndexes(call.before), j \in NodeIndexes(call.before) :
          1 < i /\ i < j
    /\ \E i \in DOMAIN call.before.lines :
          call.before.lines[i][1][1] = "SlurmctldHost"


----------------------------------------------------------------------------
(* Validation errors in the registration handler *)

----------------------------------------------------------------------------
(* Service-handler specification: the install, service-start and           *)
(* service-stop handlers on every unit, and leadership changes             *)

NextService ==
    \/ LeaderChange
    \/ \E u \in Units :
          \/ ServiceInstall(u) \/ InstallMunge(u) \/ InstallSlurm(u) \/ InstallConf(u)
          \/ ServiceStartEvent(u) \/ StartMunge(u) \/ StartSlurm(u)
          \/ ServiceStopEvent(u) \/ StopSlurm(u) \/ StopMunge(u)

SpecService == Init /\ [][NextService]_vars

\* C28: over any sequence of install, service-start and service-stop
\* handlers, in every state, those inside a handler included, slurmctld runs
\* on a unit only while munge runs on it.
C28_SlurmctldOnlyWithMunge ==
    \A u \in Units : slurmRunning[u] => mungeRunning[u]

\* C28 witness: a service-stop handler has stopped slurmctld and is about to
\* stop munge, both having been started by a service-start handler.
C28_Witness ==
    \E u \in Units :
        /\ handler[u] = "stop"
        /\ pc[u] = "munge_stop"
        /\ pre[u].slurmRunning
        /\ ~slurmRunning[u]
        /\ mungeRunning[u]


----------------------------------------------------------------------------
(* The relation-joined handlers, and the relation-level specification: the *)
(* install handler and the three relation handlers on one unit             *)

\* secrets.token_urlsafe(): the n-th token of the run, never empty and never
\* one that was produced before.
RECURSIVE Token(_)
Token(n) == IF n = 0 THEN "" ELSE "x" \o Token(n - 1)

\* Faulty variant: the handler does not ask whether the unit is leader.
JoinedBranchNoGate(u) == "leader"

\* if self.unit.is_leader(): ...
JoinedBranch(u) == IF leader = u THEN "leader" ELSE "not_leader"

\* An exception ends the hook: what the hook wrote to an application bucket
\* before it is kept (kept = TRUE) or dropped with the failed hook.
AfterFailedHook(written, before, kept) == IF kept THEN written ELSE before

(* _auth_munge_relation_joined *)

AuthMungeRelationJoined(u) ==
    LET branch == JoinedBranch(u) IN
    /\ handler[u] # "none"
    /\ branch = "leader" => nonceCtr < MaxNonces
    /\ Enter(u, "auth_munge_relation_joined")
    /\ IF branch = "leader"
       THEN Goto(u, "auth_nonce", "Authenticating new compute node")
       ELSE Return(u, status[u])
    /\ UNCHANGED <<conf, slurmInstalled, slurmRunning, mungeInstalled,
                   mungeRunning, keyFile, leader, ctrlPayload, authPayload,
                   nonceCtr, hashseed, ev, call>>

\* iface.nonce = self.__create_nonce()
AuthNonce(u) ==
    /\ pc[u] = "auth_nonce"
    /\ nonceCtr' = nonceCtr + 1
    /\ authPayload' = [authPayload EXCEPT !.nonce = Token(nonceCtr + 1)]
    /\ Calls(u, "create_nonce")
    /\ Goto(u, "auth_load", status[u])
    /\ UNCHANGED <<conf, slurmInstalled, slurmRunning, mungeInstalled,
                   mungeRunning, keyFile, leader, ctrlPayload, hashseed,
                   handler, ev, pre, call>>

\* iface.munge_key.load(self.munge_manager.key_file_path, checksum=True)
AuthLoad(u) ==
    /\ pc[u] = "auth_load"
    /\ Calls(u, "publish")
    /\ IF "key_file_path" \in MungeManagerAttrs
       THEN /\ authPayload' = [authPayload EXCEPT
                                  !.munge_key = FileDataLoad(FileBytes(keyFile[u]))]
            /\ Return(u, "Copy of munge key sent")
       ELSE /\ \E kept \in BOOLEAN :
                  authPayload' = AfterFailedHook(authPayload, pre[u].auth, kept)
            /\ Raise(u, "AttributeError")
    /\ UNCHANGED <<conf, slurmInstalled, slurmRunning, mungeInstalled,
                   mungeRunning, keyFile, leader, ctrlPayload, nonceCtr,
                   hashseed, handler, ev, pre, call>>

(* _slurm_controller_relation_joined *)

SlurmControllerRelationJoined(u) ==
    LET branch == JoinedBranch(u) IN
    /\ handler[u] # "none"
    /\ branch = "leader" => nonceCtr < MaxNonces
    /\ Enter(u, "slurm_controller_relation_joined")
    /\ IF branch = "leader"
       THEN Goto(u, "ctrl_nonce", "Serving slurm configuration")
       ELSE Return(u, "New client detected")
    /\ UNCHANGED <<conf, slurmInstalled, slurmRunning, mungeInstalled,
                   mungeRunning, keyFile, leader, ctrlPayload, authPayload,
                   nonceCtr, hashseed, ev, call>>

\* iface.nonce = self.__create_nonce()
CtrlNonce(u) ==
    /\ pc[u] = "ctrl_nonce"
    /\ nonceCtr' = nonceCtr + 1
    /\ ctrlPayload' = [ctrlPayload EXCEPT !.nonce = Token(nonceCtr + 1)]
    /\ Calls(u, "create_nonce")
    /\ Goto(u, "ctrl_load", status[u])
    /\ UNCHANGED <<conf, slurmInstalled, slurmRunning, mungeInstalled,
                   mungeRunning, keyFile, leader, authPayload, hashseed,
                   handler, ev, pre, call>>

\* iface.slurm_conf.load(self.slurm_server_manager.conf_file_path, checksum=True)
CtrlLoad(u) ==
    /\ pc[u] = "ctrl_load"
    /\ Calls(u, "publish")
    /\ IF "conf_file_path" \in SlurmServerManagerAttrs
       THEN /\ ctrlPayload' = [ctrlPayload EXCEPT !.slurm_conf = FileDataLoad(conf[u])]
            /\ Return(u, status[u])
       ELSE /\ \E kept \in BOOLEAN :
                  ctrlPayload' = AfterFailedHook(ctrlPayload, pre[u].ctrl, kept)
            /\ Raise(u, "AttributeError")
    /\ UNCHANGED <<conf, slurmInstalled, slurmRunning, mungeInstalled,
                   mungeRunning, keyFile, leader, authPayload, nonceCtr,
                   hashseed, handler, ev, pre, call>>

\* The slurm-compute buckets of the relation-level specification: a complete
\* record of one node, ready or not.
RelRegistrations ==
    [nonce : {"", "ready"},
     hostname : {Some("node1")},
     ip_address : {Some(a) : a \in Addresses},
     cpu_count : {Some(4)},
     free_memory : {Some(0)}]

NextRel ==
    \/ LeaderChange
    \/ \E u \in SpecUnits :
          \/ ServiceInstall(u) \/ InstallMunge(u) \/ InstallSlurm(u) \/ InstallConf(u)
          \/ AuthMungeRelationJoined(u) \/ AuthNonce(u) \/ AuthLoad(u)
          \/ SlurmControllerRelationJoined(u) \/ CtrlNonce(u) \/ CtrlLoad(u)
          \/ ComputeEvent(u, RelRegistrations, {hashseed})
          \/ AdmitStop(u) \/ AdmitAddNode(u) \/ AdmitGenerateBasePartition(u)
          \/ AdmitStart(u) \/ AdmitPublish(u)

SpecRel == Init /\ [][NextRel]_vars

JoinedHandlers == {"auth_munge_relation_joined", "slurm_controller_relation_joined"}
RelationHandlers == JoinedHandlers \cup {"slurm_compute_relation_changed"}

\* The unit's handler has run the statement that loads the file into the
\* payload: the unit has published, or has failed to.
PublishRun(u) == pc[u] = "idle" /\ "publish" \in SeqRange(trace[u])

\* C21: when a leader's handler has published the munge key (auth-munge
\* joined) or slurm.conf (slurm-controller joined, or after an admission),
\* the payload holds the file's bytes and its fingerprint field is the
\* digest of those bytes.
C21_FingerprintOfPublishedBytes ==
    \A u \in Units :
        (handler[u] \in RelationHandlers /\ PublishRun(u)) =>
            IF handler[u] = "auth_munge_relation_joined"
            THEN /\ authPayload.munge_key.data = FileBytes(keyFile[u])
                 /\ authPayload.munge_key_hash # ""
                 /\ authPayload.munge_key_hash = Sha224(authPayload.munge_key.data)
            ELSE /\ ctrlPayload.slurm_conf.data = conf[u]
                 /\ ctrlPayload.slurm_conf_hash # ""
                 /\ ctrlPayload.slurm_conf_hash = Sha224(ctrlPayload.slurm_conf.data)

\* C22: when a leader's handler has published on the auth-munge or the
\* slurm-controller payload, the nonce of that payload was generated in that
\* handler and is not the nonce the payload held before.
C22_FreshNoncePerRound ==
    \A u \in Units :
        (handler[u] \in RelationHandlers /\ PublishRun(u)) =>
            /\ "create_nonce" \in SeqRange(trace[u])
            /\ IF handler[u] = "auth_munge_relation_joined"
               THEN authPayload.nonce # pre[u].auth.nonce
               ELSE ctrlPayload.nonce # pre[u].ctrl.nonce

\* C23: while and after a unit that was not leader when it took the event
\* handles an auth-munge joined, slurm-compute changed or slurm-controller
\* joined event, both application payloads are what they were when the
\* handler was entered.
C23_NonLeaderNoPayloadWrite ==
    \A u \in Units :
        (handler[u] \in RelationHandlers /\ ~pre[u].isLeader) =>
            /\ authPayload = pre[u].auth
            /\ ctrlPayload = pre[u].ctrl

\* C23 witness: a non-leader has handled a slurm-controller joined event
\* after the payload had received a nonce from the unit's earlier handler.
C23_Witness ==
    \E u \in Units :
        /\ handler[u] = "slurm_controller_relation_joined"
        /\ pc[u] = "idle"
        /\ ~pre[u].isLeader
        /\ status[u] = "New client detected"
        /\ ctrlPayload.nonce # ""


----------------------------------------------------------------------------
(* Cluster-level specification: the install and the registration handlers  *)
(* on every unit of the application, with leadership moving between them   *)

\* Leadership moves while the old leader's handler is still running: the
\* handler asked is_leader() once, when it chose its branch, and runs on.
LeaseExpires ==
    /\ pc[leader] # "idle"
    /\ \E v \in Units \ {leader} : leader' = v
    /\ UNCHANGED <<conf, slurmInstalled, slurmRunning, mungeInstalled,
                   mungeRunning, keyFile, status, ctrlPayload, authPayload,
                   nonceCtr, hashseed, handler, pc, ev, outcome, trace, pre,
                   call>>

\* The slurm-compute bucket a unit's events carry in the cluster: one node
\* per server unit, so that the units admit different nodes.
ClusterRegistrations(u) ==
    [nonce : {"", "ready"},
     hostname : {Some(IF u = "u1" THEN "node1" ELSE "")},
     ip_address : {Some(a) : a \in Addresses},
     cpu_count : {Some(4)},
     free_memory : {Some(0)}]

NextCluster ==
    \/ LeaderChange
    \/ LeaseExpires
    \/ \E u \in Units :
          \/ ServiceInstall(u) \/ InstallMunge(u) \/ InstallSlurm(u) \/ InstallConf(u)
          \/ ComputeEvent(u, ClusterRegistrations(u), {hashseed})
          \/ AdmitStop(u) \/ AdmitAddNode(u) \/ AdmitGenerateBasePartition(u)
          \/ AdmitStart(u) \/ AdmitPublish(u)

SpecCluster == Init /\ [][NextCluster]_vars

\* The unit is inside an admission transaction.
InAdmission(u) ==
    /\ InCompute(u)
    /\ pc[u] \in {"stop", "add_node", "generate_base_partition", "start", "publish"}

\* The node names the base partition of a file lists.
PartitionNodes(file) ==
    UNION {SeqRange(WordValue(file.lines[i], "Nodes")) : i \in PartitionIndexes(file)}

\* The node names of the NodeName lines of a file.
NodeNames(file) == {NodeNameToken(file.lines[i]) : i \in NodeIndexes(file)}

C25_OneAdmissionAtATime ==
    Cardinality({u \in Units : InAdmission(u)}) <= 1


----------------------------------------------------------------------------
(* The install and registration handlers under fair scheduling: a handler *)
(* that was entered runs its statements to the end before the dispatcher  *)
(* takes the next event                                                   *)

NextRetry ==
    \/ LeaderChange
    \/ \E u \in SpecUnits :
          \/ ServiceInstall(u) \/ InstallMunge(u) \/ InstallSlurm(u) \/ InstallConf(u)
          \/ ComputeEvent(u, Registrations, {hashseed})
          \/ AdmitStop(u) \/ AdmitAddNode(u) \/ AdmitGenerateBasePartition(u)
          \/ AdmitStart(u) \/ AdmitPublish(u)

HandlerStep ==
    \E u \in SpecUnits :
        \/ InstallMunge(u) \/ InstallSlurm(u) \/ InstallConf(u)
        \/ AdmitStop(u) \/ AdmitAddNode(u) \/ AdmitGenerateBasePartition(u)
        \/ AdmitStart(u) \/ AdmitPublish(u)

SpecFair == Init /\ [][NextRetry]_vars /\ WF_vars(HandlerStep)

\* The registration delivered before this one was dropped as not ready.
RetriedReady(u) ==
    /\ InCompute(u)
    /\ pc[u] = "stop"
    /\ pre[u].status = "Compute node is not ready yet"
    /\ slurmInstalled[u]

====
